---- MODULE Spec2Model ----
(***************************************************************************)
(* cargo-lookup: query parsing, index path mapping, index file parsing,    *)
(* release selection (src/src/lib.rs) and the recursive dependency         *)
(* resolver of the command line tool (src/src/main.rs).                    *)
(*                                                                         *)
(* Text is a sequence of one-character strings.  A version d stands for    *)
(* the semantic version d.0.0; a version requirement is a record           *)
(* [op, v] with op one of "any", "eq" (=d), "caret" (d) and "ge" (>=d).    *)
(***************************************************************************)
EXTENDS Integers, Sequences, FiniteSets, TLC

VARIABLES
    \* ---- query parsing and index path mapping (lib.rs) ----
    text,       \* the input text handed to FromStr / get_index_path
    query,      \* the result of text.parse::<Query>()
    path,       \* the result of get_index_path
    qpc,        \* position: "input", "parsed", "mapped", "path"
    \* ---- index file parsing and release selection (lib.rs) ----
    content,    \* the lines of an index file
    pkg,        \* the result of Package::from_index(content)
    vreq,       \* the version requirement handed to Package::version
    found,      \* the result of Package::version / into_version / latest
    ipc,        \* position: "input", "parsed", "version", "into_version", "latest"
    \* ---- the resolver (main.rs) ----
    options,    \* cli::Options: packages, recursive, max_depth, ignore_missing
    registry,   \* the remote index: index path -> index file
    resolved,   \* main's `resolved` vector
    stack,      \* the active resolve() calls that are inside their `for sub in deps`
    pkgi,       \* main's position in `for package in packages`
    status,     \* "running", "ok" (main returned Ok), "error" (main returned Err), "panic"
    output,     \* what main printed: the releases, in order
    trail       \* per element of resolved: the call that pushed it (history)

vars == <<text, query, path, qpc, content, pkg, vreq, found, ipc,
          options, registry, resolved, stack, pkgi, status, output, trail>>

queryVars == <<text, query, path, qpc>>
indexVars == <<content, pkg, vreq, found, ipc>>
resolverVars == <<options, registry, resolved, stack, pkgi, status, output, trail>>

(***************************************************************************)
(* Bounds of the model.                                                    *)
(***************************************************************************)
MaxTextLen == 5     \* longest input text of the query specification
MaxLines == 3       \* most lines of an index file of the index specification
MaxVer == 3         \* versions 1..MaxVer in the index specification
MaxRoots == 2       \* most package arguments on the command line
MaxDepth == 3       \* largest --max-depth value
MaxDeps == 2        \* most dependencies of the root package's latest release

(***************************************************************************)
(* Sequences                                                               *)
(***************************************************************************)
SeqsUpTo(S, n) == UNION {[1..k -> S] : k \in 0..n}

Last(s) == s[Len(s)]

IsPrefix(s, t) == Len(s) <= Len(t) /\ SubSeq(t, 1, Len(s)) = s

\* Distinct elements only
InjSeqsUpTo(S, n) == {s \in SeqsUpTo(S, n) : \A i, j \in 1..Len(s) : i # j => s[i] # s[j]}

(***************************************************************************)
(* Characters and ASCII lower-casing (str::to_ascii_lowercase)             *)
(***************************************************************************)
Upper == {"A", "B", "C", "M"}

LowerChar(c) ==
    CASE c = "A" -> "a"
      [] c = "B" -> "b"
      [] c = "C" -> "c"
      [] c = "M" -> "m"
      [] OTHER -> c

to_ascii_lowercase(s) == [i \in 1..Len(s) |-> LowerChar(s[i])]

(***************************************************************************)
(* Results: Ok(val), Err(err), or a panic                                  *)
(***************************************************************************)
Ok(v) == [tag |-> "Ok", val |-> v]
Err(e) == [tag |-> "Err", err |-> e]
Panicked == [tag |-> "Panic"]

IsOk(r) == r.tag = "Ok"
IsErr(r) == r.tag = "Err"
IsPanic(r) == r.tag = "Panic"

\* Option<T>
None == [some |-> FALSE]
Some(v) == [some |-> TRUE, val |-> v]

(***************************************************************************)
(* semver: versions, requirements, parsing and display of a requirement    *)
(***************************************************************************)
Digits == {"1", "2", "3"}

DigitVal(c) == CASE c = "1" -> 1 [] c = "2" -> 2 [] c = "3" -> 3 [] OTHER -> 0

DigitChar(d) == CASE d = 1 -> "1" [] d = 2 -> "2" [] d = 3 -> "3" [] OTHER -> "0"

RECURSIVE NumVal(_)
NumVal(s) == IF Len(s) = 0 THEN 0 ELSE 10 * NumVal(SubSeq(s, 1, Len(s) - 1)) + DigitVal(Last(s))

IsNum(s) == Len(s) >= 1 /\ \A i \in 1..Len(s) : s[i] \in Digits

Req(op, v) == [op |-> op, v |-> v]
AnyReq == Req("any", 0)

\* VersionReq::parse: the star, "=d", ">=d", "^d" and the bare "d" (a caret requirement)
VersionReq_parse(s) ==
    CASE s = <<"*">> -> Ok(AnyReq)
      [] Len(s) >= 2 /\ s[1] = "=" /\ IsNum(Tail(s)) -> Ok(Req("eq", NumVal(Tail(s))))
      [] Len(s) >= 3 /\ s[1] = ">" /\ s[2] = "=" /\ IsNum(Tail(Tail(s)))
            -> Ok(Req("ge", NumVal(Tail(Tail(s)))))
      [] Len(s) >= 2 /\ s[1] = "^" /\ IsNum(Tail(s)) -> Ok(Req("caret", NumVal(Tail(s))))
      [] IsNum(s) -> Ok(Req("caret", NumVal(s)))
      [] OTHER -> Err("InvalidVersion")

\* Display for VersionReq (one-digit versions)
VersionReq_display(r) ==
    CASE r.op = "any" -> <<"*">>
      [] r.op = "eq" -> <<"=", DigitChar(r.v)>>
      [] r.op = "ge" -> <<">", "=", DigitChar(r.v)>>
      [] OTHER -> <<"^", DigitChar(r.v)>>

\* VersionReq::matches on versions d.0.0
Matches(r, v) ==
    CASE r.op = "any" -> TRUE
      [] r.op = "eq" -> v = r.v
      [] r.op = "caret" -> v = r.v
      [] r.op = "ge" -> v >= r.v
      [] OTHER -> FALSE

(***************************************************************************)
(* get_index_path (lib.rs 297-318)                                         *)
(***************************************************************************)
\* The slice &package[..2] of an empty name is out of range: a panic
PathPanic == <<"panic">>

get_index_path_nolower(package) ==
    LET n == Len(package) IN
    CASE n = 1 -> <<"1", "/">> \o package
      [] n = 2 -> <<"2", "/">> \o package
      [] n = 3 -> <<"3", "/", package[1], "/">> \o package
      [] OTHER ->
            IF n < 4 THEN PathPanic
            ELSE SubSeq(package, 1, 2) \o <<"/">> \o SubSeq(package, 3, 4)
                    \o <<"/">> \o package

get_index_path(package) ==
    LET n == Len(package)
        p == CASE n = 1 -> <<"1", "/">> \o package
               [] n = 2 -> <<"2", "/">> \o package
               [] n = 3 -> <<"3", "/", package[1], "/">> \o package
               [] OTHER ->
                    IF n < 4 THEN PathPanic
                    ELSE SubSeq(package, 1, 2) \o <<"/">> \o SubSeq(package, 3, 4)
                            \o <<"/">> \o package
    IN  IF p = PathPanic THEN PathPanic ELSE to_ascii_lowercase(p)

(***************************************************************************)
(* impl FromStr for Query (lib.rs 63-82)                                   *)
(***************************************************************************)
\* str::split_once('@'): the position of the first '@', 0 when there is none
FirstAt(s) ==
    IF \E i \in 1..Len(s) : s[i] = "@"
    THEN CHOOSE i \in 1..Len(s) : s[i] = "@" /\ \A j \in 1..(i - 1) : s[j] # "@"
    ELSE 0

\* The match of lines 67-70: <<name, Option<version text>>>
split_name_version(name) ==
    LET at == FirstAt(name)
        version == SubSeq(name, at + 1, Len(name))
    IN  IF at > 0 /\ Len(version) > 0
        THEN <<SubSeq(name, 1, at - 1), Some(version)>>
        ELSE <<name, None>>     \* `name` is the whole input here

from_str(name) ==
    LET nv == split_name_version(name)
        parsed == IF nv[2].some THEN VersionReq_parse(nv[2].val) ELSE Ok(AnyReq)
    IN  IF nv[2].some /\ IsErr(parsed) THEN Err("InvalidVersion")
        ELSE Ok([name |-> nv[1],
                 version_req |-> IF nv[2].some THEN Some(parsed.val) ELSE None])

(***************************************************************************)
(* The query specification: a text is parsed, and the parsed name mapped   *)
(* to its index path as Query::raw_index does (lib.rs 97)                  *)
(***************************************************************************)
Alphabet == {"a", "B", "@", "=", "1"}

Texts == SeqsUpTo(Alphabet, MaxTextLen)

NoQuery == [tag |-> "none"]
NoPath == <<"none">>

QueryIdle == text = <<>> /\ query = NoQuery /\ path = NoPath /\ qpc = "off"

\* text.parse::<Query>()
QParse ==
    /\ qpc = "input"
    /\ query' = from_str(text)
    /\ qpc' = "parsed"
    /\ UNCHANGED <<text, path>>

\* Query::raw_index up to the request: get_index_path(&self.name)
QRawIndex ==
    /\ qpc = "parsed"
    /\ IsOk(query)
    /\ path' = get_index_path(query.val.name)
    /\ qpc' = "mapped"
    /\ UNCHANGED <<text, query>>

\* get_index_path called directly on the text (it is a public function)
QIndexPath ==
    /\ qpc = "input"
    /\ Len(text) > 0
    /\ path' = get_index_path(text)
    /\ qpc' = "path"
    /\ UNCHANGED <<text, query>>

(***************************************************************************)
(* Release, Package and Package::from_index (lib.rs 126-258)               *)
(***************************************************************************)
Release(name, vers, deps, yanked) ==
    [name |-> name, vers |-> vers, deps |-> deps, yanked |-> yanked]

\* A line of an index file: the JSON of a release, a blank line, or anything else
JsonLine(r) == [kind |-> "json", rel |-> r]
BlankLine == [kind |-> "blank"]
BadLine == [kind |-> "bad"]

\* serde_json::from_str::<Release>(line).map_err(Error::Deserialize) (lib.rs 195)
deserialize(line) == IF line.kind = "json" THEN Ok(line.rel) ELSE Err("Deserialize")

\* lines().map(..).collect::<Result<Vec<Release>>>() (lib.rs 193-196): the first
\* failure ends the collection
RECURSIVE collect(_)
collect(lines) ==
    IF Len(lines) = 0 THEN Ok(<<>>)
    ELSE LET head == deserialize(Head(lines)) IN
         IF IsErr(head) THEN head
         ELSE LET rest == collect(Tail(lines)) IN
              IF IsErr(rest) THEN rest ELSE Ok(<<head.val>> \o rest.val)

\* The same with blank lines filtered out before deserializing
RECURSIVE collect_skip_blank(_)
collect_skip_blank(lines) ==
    IF Len(lines) = 0 THEN Ok(<<>>)
    ELSE IF Head(lines).kind = "blank" THEN collect_skip_blank(Tail(lines))
    ELSE LET head == deserialize(Head(lines)) IN
         IF IsErr(head) THEN head
         ELSE LET rest == collect_skip_blank(Tail(lines)) IN
              IF IsErr(rest) THEN rest ELSE Ok(<<head.val>> \o rest.val)

from_index_skip_blank(lines) ==
    LET releases == collect_skip_blank(lines) IN
    IF IsErr(releases) THEN releases
    ELSE IF Len(releases.val) = 0 THEN Err("FromIndexFile(empty)")
    ELSE LET name == Last(releases.val).name
             index_path == get_index_path(name)
         IN  IF index_path = PathPanic THEN Panicked
             ELSE Ok([name |-> name, index_path |-> index_path, releases |-> releases.val])

\* Package::from_index (lib.rs 187-212)
from_index(lines) ==
    LET releases == collect(lines) IN
    IF IsErr(releases) THEN releases
    ELSE IF Len(releases.val) = 0 THEN Err("FromIndexFile(empty)")
    ELSE LET name == Last(releases.val).name
             index_path == get_index_path(name)
         IN  IF index_path = PathPanic THEN Panicked
             ELSE Ok([name |-> name, index_path |-> index_path, releases |-> releases.val])

\* Package::into_latest / Package::latest (lib.rs 151-158)
into_latest(self) ==
    IF Len(self.releases) = 0 THEN None ELSE Some(Last(self.releases))

\* releases.iter().find(..): the first match in file order
RECURSIVE find(_, _)
find(releases, version_req) ==
    IF Len(releases) = 0 THEN None
    ELSE IF Matches(version_req, Head(releases).vers) THEN Some(Head(releases))
    ELSE find(Tail(releases), version_req)

\* releases.iter().rev().find(|release| version_req.matches(&release.vers))
RECURSIVE rev_find(_, _)
rev_find(releases, version_req) ==
    IF Len(releases) = 0 THEN None
    ELSE IF Matches(version_req, Last(releases).vers) THEN Some(Last(releases))
    ELSE rev_find(SubSeq(releases, 1, Len(releases) - 1), version_req)

into_version_forward(self, version_req) == find(self.releases, version_req)

\* Package::into_version (lib.rs 166-171)
into_version(self, version_req) == rev_find(self.releases, version_req)

\* Package::version (lib.rs 179-184)
version(self, version_req) == rev_find(self.releases, version_req)

(***************************************************************************)
(* The index specification: an index file is parsed and a release selected *)
(***************************************************************************)
IndexName == <<"a", "b">>

IndexReleases == {Release(IndexName, v, <<>>, y) : v \in 1..MaxVer, y \in BOOLEAN}

IndexLines == {JsonLine(r) : r \in IndexReleases} \cup {BlankLine, BadLine}

IndexReqs == {AnyReq} \cup {Req(op, v) : op \in {"eq", "ge"}, v \in 1..MaxVer}

NoPkg == [tag |-> "none"]

IndexIdle == content = <<>> /\ pkg = NoPkg /\ vreq = AnyReq /\ found = None /\ ipc = "off"

IFromIndex ==
    /\ ipc = "input"
    /\ pkg' = from_index(content)
    /\ ipc' = "parsed"
    /\ UNCHANGED <<content, vreq, found>>

\* pkg.version(&req)
IVersion ==
    /\ ipc = "parsed"
    /\ IsOk(pkg)
    /\ \E r \in IndexReqs :
        /\ vreq' = r
        /\ found' = version(pkg.val, r)
    /\ ipc' = "version"
    /\ UNCHANGED <<content, pkg>>

\* pkg.into_version(&req)
IIntoVersion ==
    /\ ipc = "parsed"
    /\ IsOk(pkg)
    /\ \E r \in IndexReqs :
        /\ vreq' = r
        /\ found' = into_version(pkg.val, r)
    /\ ipc' = "into_version"
    /\ UNCHANGED <<content, pkg>>

\* pkg.into_latest()
IIntoLatest ==
    /\ ipc = "parsed"
    /\ IsOk(pkg)
    /\ found' = into_latest(pkg.val)
    /\ ipc' = "latest"
    /\ UNCHANGED <<content, pkg, vreq>>

(***************************************************************************)
(* Query::raw_index, Query::package, Query::submit (lib.rs 95-123)         *)
(***************************************************************************)
\* ureq::get("{index_url}/{index_path}"): a path the index does not hold is a
\* request error (404)
fetch(reg, index_path) ==
    IF index_path \in DOMAIN reg THEN Ok(reg[index_path]) ELSE Err("Request")

raw_index(reg, self) ==
    LET index_path == get_index_path(self.name) IN
    IF index_path = PathPanic THEN Panicked ELSE fetch(reg, index_path)

package(reg, self) ==
    LET raw == raw_index(reg, self) IN
    IF IsOk(raw) THEN from_index(raw.val) ELSE raw

submit(reg, self) ==
    LET p == package(reg, self) IN
    IF ~IsOk(p) THEN p
    ELSE IF self.version_req.some THEN Ok(into_version(p.val, self.version_req.val))
    ELSE Ok(into_latest(p.val))

(***************************************************************************)
(* resolve (main.rs 77-126)                                                *)
(***************************************************************************)
Infinite == [kind |-> "Infinite", max |-> 0]
Restricted(max) == [kind |-> "Restricted", max |-> max]

\* main.rs 17-20
resolve_depth(opts) ==
    IF opts.max_depth.some THEN Restricted(opts.max_depth.val) ELSE Infinite

\* A missing package is an error whatever --ignore-missing says
resolve_head_strict(reg, opts, package_text) ==
    LET q == from_str(package_text) IN
    IF IsErr(q) THEN [kind |-> "error"]
    ELSE LET s == submit(reg, q.val) IN
         IF IsPanic(s) THEN [kind |-> "panic"]
         ELSE IF IsOk(s) /\ s.val.some THEN [kind |-> "found", result |-> s.val.val]
         ELSE [kind |-> "error"]

\* main.rs 84-94: the query is parsed and submitted.  "found": a release to push;
\* "none": return Ok(()) without one; "error": return Err
resolve_head(reg, opts, package_text) ==
    LET q == from_str(package_text) IN
    IF IsErr(q) THEN [kind |-> "error"]
    ELSE LET s == submit(reg, q.val) IN
         IF IsPanic(s) THEN [kind |-> "panic"]
         ELSE IF IsOk(s) /\ s.val.some THEN [kind |-> "found", result |-> s.val.val]
         ELSE IF opts.ignore_missing THEN [kind |-> "none"]
         ELSE [kind |-> "error"]

\* resolved.push(result) at the front instead of the back
push_front(res, result) == <<result>> \o res

\* main.rs 98: resolved.push(result)
push(res, result) == Append(res, result)

\* A limit of N allowing N levels below the root
should_expand_hops(opts, depth) ==
    opts.recursive /\ (depth = Infinite \/ (depth.kind = "Restricted" /\ depth.max > 0))

\* main.rs 100-101
should_expand(opts, depth) ==
    opts.recursive /\ (depth = Infinite \/ (depth.kind = "Restricted" /\ depth.max > 1))

\* main.rs 103-106
decrement(depth) ==
    IF depth = Infinite THEN Infinite ELSE Restricted(depth.max - 1)

\* main.rs 109: sub.package.as_deref().unwrap_or(sub.name.as_str())
effective_name(sub) == IF sub.package.some THEN sub.package.val ELSE sub.name

\* main.rs 111: format!("{name}@{version_req}")
sub_query(sub) == effective_name(sub) \o <<"@">> \o VersionReq_display(sub.req)

no_cycle_guard(res, name, version_req) == FALSE

\* main.rs 114-117
cycle_guard(res, name, version_req) ==
    \E i \in 1..Len(res) : name = res[i].name /\ Matches(version_req, res[i].vers)

\* The frame of a resolve() call that is inside its loop over deps: the next
\* dependency is deps[i], children are resolved at `depth`, and the call's own
\* release is resolved[self]
Frame(deps, depth, self) == [deps |-> deps, i |-> 1, depth |-> depth, self |-> self]

Top == stack[Len(stack)]

Advance(stk) == [stk EXCEPT ![Len(stk)].i = @ + 1]

Pop(stk) == SubSeq(stk, 1, Len(stk) - 1)

\* A call resolve(package_text, .., depth, ..) from a caller whose frames are
\* `below`, up to the start of its loop over deps (or its return)
Call(package_text, depth, below, parent, dep) ==
    LET h == resolve_head(registry, options, package_text)
        some == h.kind = "found"
    IN  /\ resolved' = IF some THEN push(resolved, h.result) ELSE resolved
        /\ trail' = IF some
                    THEN Append(trail, [parent |-> parent, dep |-> dep, level |-> Len(below),
                                        expanded |-> should_expand(options, depth)])
                    ELSE trail
        /\ stack' = IF some /\ should_expand(options, depth)
                    THEN Append(below, Frame(h.result.deps, decrement(depth), Len(resolved) + 1))
                    ELSE IF some \/ h.kind = "none" THEN below
                    \* an error is returned through every caller by `?`, main included
                    ELSE <<>>
        /\ status' = IF some \/ h.kind = "none" THEN status
                     ELSE IF h.kind = "error" THEN "error"
                     ELSE "panic"
        /\ output' = output

\* main.rs 22-30: the next package argument is resolved
MainCall ==
    /\ status = "running"
    /\ stack = <<>>
    /\ pkgi <= Len(options.packages)
    /\ pkgi' = pkgi + 1
    /\ Call(options.packages[pkgi], resolve_depth(options), <<>>, 0, pkgi)
    /\ UNCHANGED <<options, registry>>

\* main.rs 108-119: the dependency is already resolved
LoopSkip ==
    /\ status = "running"
    /\ stack # <<>>
    /\ Top.i <= Len(Top.deps)
    /\ LET sub == Top.deps[Top.i] IN
        /\ cycle_guard(resolved, effective_name(sub), sub.req)
        /\ stack' = Advance(stack)
    /\ UNCHANGED <<options, registry, resolved, pkgi, status, output, trail>>

\* main.rs 108-121: the dependency is resolved by a recursive call
LoopCall ==
    /\ status = "running"
    /\ stack # <<>>
    /\ Top.i <= Len(Top.deps)
    /\ LET sub == Top.deps[Top.i] IN
        /\ ~cycle_guard(resolved, effective_name(sub), sub.req)
        /\ Call(sub_query(sub), Top.depth, Advance(stack), Top.self, Top.i)
    /\ UNCHANGED <<options, registry, pkgi>>

\* main.rs 122-125: the loop is over, the call returns Ok(())
LoopReturn ==
    /\ status = "running"
    /\ stack # <<>>
    /\ Top.i > Len(Top.deps)
    /\ stack' = Pop(stack)
    /\ UNCHANGED <<options, registry, resolved, pkgi, status, output, trail>>

\* main.rs 32-74: every resolved release is printed
MainFinish ==
    /\ status = "running"
    /\ stack = <<>>
    /\ pkgi > Len(options.packages)
    /\ output' = resolved
    /\ status' = "ok"
    /\ UNCHANGED <<options, registry, resolved, stack, pkgi, trail>>

(***************************************************************************)
(* The index the resolver runs against, and the command lines              *)
(***************************************************************************)
Pa == <<"a">>
Pb == <<"b">>
Pc == <<"c">>
Pm == <<"m">>       \* a package the index does not hold

Dep(name, req) == [name |-> name, req |-> req, package |-> None]

\* A renamed dependency: `package` is the name of the package depended upon
Renamed(name, req, actual) == [name |-> name, req |-> req, package |-> Some(actual)]

\* The latest release of a: up to MaxDeps of b, c (renamed) and the missing m
DepsA2 == InjSeqsUpTo({Dep(Pb, AnyReq), Renamed(<<"x">>, AnyReq, Pc), Dep(Pm, AnyReq)}, MaxDeps)
DepsA1 == <<Dep(Pb, AnyReq)>>
DepsB1 == SeqsUpTo({Dep(Pa, AnyReq), Dep(Pa, Req("eq", 1)), Dep(Pc, AnyReq)}, 1)
\* b has no version 2: no release matches
DepsC1 == SeqsUpTo({Dep(Pa, Req("ge", 1)), Dep(Pb, Req("eq", 2))}, 1)

IndexFile(releases) == [i \in 1..Len(releases) |-> JsonLine(releases[i])]

Registry(a2, b1, c1) ==
    LET fa == IndexFile(<<Release(Pa, 1, DepsA1, TRUE), Release(Pa, 2, a2, FALSE)>>)
        fb == IndexFile(<<Release(Pb, 1, b1, FALSE)>>)
        fc == IndexFile(<<Release(Pc, 1, c1, FALSE)>>)
        pa == get_index_path(Pa)
        pb == get_index_path(Pb)
        pc == get_index_path(Pc)
    IN  [p \in {pa, pb, pc} |-> IF p = pa THEN fa ELSE IF p = pb THEN fb ELSE fc]

Registries ==
    {Registry(a2, b1, c1) : a2 \in DepsA2, b1 \in DepsB1, c1 \in DepsC1}

RootSpecs == {Pa, Pb}

MaxDepthArgs == {None} \cup {Some(n) : n \in 0..MaxDepth}

OptionSets ==
    {[packages |-> ps, recursive |-> r, max_depth |-> md, ignore_missing |-> g] :
        ps \in SeqsUpTo(RootSpecs, MaxRoots), r \in BOOLEAN,
        md \in MaxDepthArgs, g \in BOOLEAN}

ResolverIdle ==
    /\ options = [packages |-> <<>>, recursive |-> FALSE, max_depth |-> None,
                  ignore_missing |-> FALSE]
    /\ registry = <<>>
    /\ resolved = <<>> /\ stack = <<>> /\ pkgi = 1 /\ status = "off"
    /\ output = <<>> /\ trail = <<>>

ResolverStart ==
    /\ resolved = <<>> /\ stack = <<>> /\ pkgi = 1 /\ status = "running"
    /\ output = <<>> /\ trail = <<>>

(***************************************************************************)
(* Specifications                                                          *)
(***************************************************************************)
\* The resolver: any command line against any index of the family
Init ==
    /\ QueryIdle /\ IndexIdle
    /\ options \in OptionSets
    /\ registry \in Registries
    /\ ResolverStart

Next ==
    \/ MainCall /\ UNCHANGED <<queryVars, indexVars>>
    \/ LoopSkip /\ UNCHANGED <<queryVars, indexVars>>
    \/ LoopCall /\ UNCHANGED <<queryVars, indexVars>>
    \/ LoopReturn /\ UNCHANGED <<queryVars, indexVars>>
    \/ MainFinish /\ UNCHANGED <<queryVars, indexVars>>

Spec == Init /\ [][Next]_vars

\* Query parsing and index path mapping
InitQuery ==
    /\ text \in Texts /\ query = NoQuery /\ path = NoPath /\ qpc = "input"
    /\ IndexIdle /\ ResolverIdle

NextQuery ==
    \/ QParse /\ UNCHANGED <<indexVars, resolverVars>>
    \/ QRawIndex /\ UNCHANGED <<indexVars, resolverVars>>
    \/ QIndexPath /\ UNCHANGED <<indexVars, resolverVars>>

SpecQuery == InitQuery /\ [][NextQuery]_vars

\* Index file parsing and release selection
InitIndex ==
    /\ content \in SeqsUpTo(IndexLines, MaxLines)
    /\ pkg = NoPkg /\ vreq = AnyReq /\ found = None /\ ipc = "input"
    /\ QueryIdle /\ ResolverIdle

NextIndex ==
    \/ IFromIndex /\ UNCHANGED <<queryVars, resolverVars>>
    \/ IVersion /\ UNCHANGED <<queryVars, resolverVars>>
    \/ IIntoVersion /\ UNCHANGED <<queryVars, resolverVars>>
    \/ IIntoLatest /\ UNCHANGED <<queryVars, resolverVars>>

SpecIndex == InitIndex /\ [][NextIndex]_vars

(***************************************************************************)
(* Properties: index path mapping and query parsing                        *)
(***************************************************************************)
HasAt(s) == \E i \in 1..Len(s) : s[i] = "@"

HasUpper(s) == \E i \in 1..Len(s) : s[i] \in Upper

\* The documented path of a lower-case name
DocumentedPath(l) ==
    IF Len(l) = 1 THEN <<"1", "/">> \o l
    ELSE IF Len(l) = 2 THEN <<"2", "/">> \o l
    ELSE IF Len(l) = 3 THEN <<"3", "/", l[1], "/">> \o l
    ELSE <<l[1], l[2], "/", l[3], l[4], "/">> \o l

\* C6: for every non-empty ASCII name get_index_path returns the documented
\* path of the lower-cased name (1/, 2/, 3/c/ or cc/cc/ by length), all in lower
\* case, and so maps a name and its lower-cased form to the same path.
C6_IndexPathByLength ==
    qpc = "path" =>
        /\ path = DocumentedPath(to_ascii_lowercase(text))
        /\ ~HasUpper(path)
        /\ path = get_index_path(to_ascii_lowercase(text))

C6_Witness ==
    /\ qpc = "path"
    /\ Len(text) = 5
    /\ HasUpper(text)
    /\ path = <<"a", "b", "/", "1", "b", "/", "a", "b", "1", "b", "a">>

\* C5: parsing a text without '@' gives the text as name and no constraint;
\* "n@c" with a valid non-empty c gives name n and constraint c; "n@" gives
\* name n (without the '@') and no constraint.
C5_QueryParse ==
    qpc = "parsed" =>
        LET at == FirstAt(text)
            n == SubSeq(text, 1, at - 1)
            c == SubSeq(text, at + 1, Len(text))
        IN  /\ ~HasAt(text) =>
                IsOk(query) /\ query.val.name = text /\ ~query.val.version_req.some
            /\ (HasAt(text) /\ Len(c) > 0 /\ IsOk(VersionReq_parse(c))) =>
                /\ IsOk(query) /\ query.val.name = n
                /\ query.val.version_req = Some(VersionReq_parse(c).val)
            /\ (HasAt(text) /\ Len(c) = 0) =>
                IsOk(query) /\ query.val.name = n /\ ~query.val.version_req.some

\* C8: every successfully parsed Query has a non-empty name, so get_index_path
\* is never called on an empty name by raw_index.
C8_NameNonEmpty ==
    /\ (qpc = "parsed" /\ IsOk(query)) => Len(query.val.name) > 0
    /\ qpc = "mapped" => path # PathPanic

(***************************************************************************)
(* Properties: index file parsing and release selection                    *)
(***************************************************************************)
Blank(lines) == {i \in 1..Len(lines) : lines[i].kind = "blank"}
Bad(lines) == {i \in 1..Len(lines) : lines[i].kind = "bad"}
Json(lines) == {i \in 1..Len(lines) : lines[i].kind = "json"}

\* The releases of the non-blank lines, in order
RECURSIVE NonBlankReleases(_)
NonBlankReleases(lines) ==
    IF Len(lines) = 0 THEN <<>>
    ELSE IF Head(lines).kind = "json" THEN <<Head(lines).rel>> \o NonBlankReleases(Tail(lines))
    ELSE NonBlankReleases(Tail(lines))

Parsed == ipc # "input" /\ ipc # "off"

\* C7 as stated: an input of zero lines or of blank lines only fails with the
\* empty-index error, blank lines of an otherwise valid index are skipped, and no
\* package without releases is returned.
C7_BlankLinesSkipped ==
    Parsed =>
        /\ Blank(content) = DOMAIN content => pkg = Err("FromIndexFile(empty)")
        /\ (Bad(content) = {} /\ Json(content) # {}) =>
                IsOk(pkg) /\ pkg.val.releases = NonBlankReleases(content)
        /\ IsOk(pkg) => Len(pkg.val.releases) > 0

\* C7 amended: an input of zero lines fails with the empty-index error; every
\* line is deserialized, so an input with a blank (or malformed) line fails
\* with the deserialize error; otherwise the package holds one release per line,
\* named after the last; no package without releases is returned.
C7_EveryLineDeserialized ==
    Parsed =>
        /\ Len(content) = 0 => pkg = Err("FromIndexFile(empty)")
        /\ (Blank(content) # {} \/ Bad(content) # {}) => pkg = Err("Deserialize")
        /\ (Len(content) > 0 /\ Json(content) = DOMAIN content) =>
                /\ IsOk(pkg)
                /\ pkg.val.releases = [i \in DOMAIN content |-> content[i].rel]
                /\ pkg.val.name = Last(content).rel.name
        /\ IsOk(pkg) => Len(pkg.val.releases) > 0

C7_Witness ==
    /\ ipc = "parsed"
    /\ Len(content) = 3
    /\ content[1].kind = "json" /\ content[2].kind = "blank" /\ content[3].kind = "json"
    /\ pkg = Err("Deserialize")

Selected == ipc \in {"version", "into_version"}

Satisfying(releases, r) == {i \in 1..Len(releases) : Matches(r, releases[i].vers)}

Ascending(releases) ==
    \A i, j \in 1..Len(releases) : i < j => releases[i].vers <= releases[j].vers

\* C4 as stated: whatever the file order, the release returned is one of highest
\* version among those satisfying the requirement, nothing is returned iff none
\* satisfies it, and a yanked release is not excluded.
C4_HighestInAnyOrder ==
    Selected =>
        LET rs == pkg.val.releases
            sat == Satisfying(rs, vreq)
        IN  /\ found.some <=> sat # {}
            /\ found.some =>
                /\ \E i \in sat : found.val = rs[i]
                /\ \A i \in sat : rs[i].vers <= found.val.vers

\* C4 amended: the release returned is the last one in file order that
\* satisfies the requirement, yanked or not, which is one of highest version when
\* the file lists its releases in ascending version order; nothing is returned
\* iff none satisfies it.
C4_LastInFileOrder ==
    Selected =>
        LET rs == pkg.val.releases
            sat == Satisfying(rs, vreq)
        IN  /\ found.some <=> sat # {}
            /\ found.some =>
                /\ \E i \in sat : found.val = rs[i] /\ \A j \in sat : j <= i
                /\ Ascending(rs) => \A i \in sat : rs[i].vers <= found.val.vers

\* A yanked release is returned although an earlier line holds a higher version
C4_Witness ==
    /\ ipc = "into_version"
    /\ found.some /\ found.val.yanked
    /\ \E i \in 1..Len(pkg.val.releases) :
        /\ Matches(vreq, pkg.val.releases[i].vers)
        /\ pkg.val.releases[i].vers > found.val.vers

(***************************************************************************)
(* Properties: the resolver                                                *)
(***************************************************************************)
Strict(opts) == [opts EXCEPT !.ignore_missing = FALSE]

\* The release a lookup of the dependency yields, if any
Lookup(reg, sub) == resolve_head(reg, [ignore_missing |-> FALSE], sub_query(sub))

Findable(reg, sub) == Lookup(reg, sub).kind = "found"

Count(res, r) == Cardinality({i \in 1..Len(res) : res[i].name = r.name /\ res[i].vers = r.vers})

Done == status \in {"ok", "error", "panic"}

\* The pairs <<A, B>>: A the release the root a resolves to, B the release one of
\* A's dependencies resolves to, B depending on A's package with a requirement
\* A's version satisfies
CyclePairs ==
    LET root == resolve_head(registry, Strict(options), Pa) IN
    IF root.kind # "found" THEN {}
    ELSE LET A == root.result IN
         {<<A, Lookup(registry, A.deps[i]).result>> :
            i \in {k \in 1..Len(A.deps) :
                    /\ Findable(registry, A.deps[k])
                    /\ LET B == Lookup(registry, A.deps[k]).result IN
                        \E j \in 1..Len(B.deps) :
                            /\ effective_name(B.deps[j]) = A.name
                            /\ Matches(B.deps[j].req, A.vers)}}

AllReleases ==
    UNION {{registry[p][i].rel : i \in 1..Len(registry[p])} : p \in DOMAIN registry}

InResolved(r) == \E i \in 1..Len(resolved) : resolved[i] = r

RECURSIVE PendingDeps(_)
\* The dependencies the active calls have still to visit, and their returns
PendingDeps(stk) ==
    IF Len(stk) = 0 THEN 0
    ELSE (Len(Last(stk).deps) + 1 - Last(stk).i) + 1 + PendingDeps(Pop(stk))

LongestDeps ==
    CHOOSE n \in 0..MaxDeps + 1 :
        /\ \A r \in AllReleases : Len(r.deps) <= n
        /\ \E r \in AllReleases : Len(r.deps) = n

\* What is left to do: releases not yet resolved and roots not yet called, each
\* worth more than the deepest loop it can open, then the open loops
Variant ==
    IF Done THEN 0
    ELSE 1 + (LongestDeps + 2)
                * (Cardinality({r \in AllReleases : ~InResolved(r)})
                    + (Len(options.packages) + 1 - pkgi))
           + PendingDeps(stack)

CycleRun ==
    /\ options.packages = <<Pa>> /\ options.recursive /\ options.max_depth = None
    /\ CyclePairs # {}

\* C1: on a dependency cycle (A depends on B, B on A, each requirement satisfied
\* by the other's resolved release) the recursive resolution of root A with no
\* depth limit terminates (every step lowers a natural-valued variant), and the
\* accumulated sequence holds A once and B once.
C1_CycleTerminates ==
    [][CycleRun =>
        /\ Variant' < Variant /\ Variant' >= 0
        /\ \A ab \in CyclePairs :
            /\ Count(resolved', ab[1]) <= 1 /\ Count(resolved', ab[2]) <= 1
            /\ status' = "ok" => Count(resolved', ab[1]) = 1 /\ Count(resolved', ab[2]) = 1]_vars

C1_Witness ==
    /\ status = "ok"
    /\ CycleRun
    /\ Len(resolved) = 2
    /\ <<resolved[1], resolved[2]>> \in CyclePairs

\* The releases met following single dependencies from rel
RECURSIVE ChainFrom(_, _, _)
ChainFrom(reg, rel, seen) ==
    IF Len(rel.deps) = 1 /\ Findable(reg, rel.deps[1])
    THEN LET next == Lookup(reg, rel.deps[1]).result IN
         IF next \in seen THEN <<rel>>
         ELSE <<rel>> \o ChainFrom(reg, next, seen \cup {next})
    ELSE <<rel>>

\* A single root R whose dependencies form a chain R -> D1 -> D2 .. that ends
RootChain ==
    LET root == resolve_head(registry, Strict(options), options.packages[1]) IN
    IF Len(options.packages) = 1 /\ root.kind = "found"
    THEN ChainFrom(registry, root.result, {root.result})
    ELSE <<>>

IsChain(c) == Len(c) > 0 /\ Len(Last(c).deps) = 0

DepthLimited == options.recursive /\ options.max_depth.some /\ options.max_depth.val >= 1

\* C2 as stated: with --max-depth N the release k hops down the chain from the
\* root is resolved iff k <= N (with N = 1: R and D1, not D2).
C2_RootPlusNLevels ==
    (status = "ok" /\ DepthLimited /\ IsChain(RootChain)) =>
        \A k \in 0..(Len(RootChain) - 1) :
            InResolved(RootChain[k + 1]) <=> k <= options.max_depth.val

\* C2 amended: with --max-depth N (N >= 1) the root counts as the first of N
\* levels: no release is resolved more than N - 1 hops below a root, and the
\* release k hops down a chain from the root is resolved iff k <= N - 1 (with
\* N = 1: R alone; with N = 2: R and D1, not D2).
C2_NLevelsWithRoot ==
    /\ DepthLimited => \A i \in 1..Len(trail) : trail[i].level <= options.max_depth.val - 1
    /\ (status = "ok" /\ DepthLimited /\ IsChain(RootChain)) =>
            \A k \in 0..(Len(RootChain) - 1) :
                InResolved(RootChain[k + 1]) <=> k <= options.max_depth.val - 1

C2_Witness ==
    /\ status = "ok"
    /\ options.recursive /\ options.max_depth = Some(2)
    /\ IsChain(RootChain) /\ Len(RootChain) = 3
    /\ resolved = SubSeq(RootChain, 1, 2)

\* The index with every dependency that cannot be found taken out of the lists
Prune(reg) ==
    [p \in DOMAIN reg |->
        [i \in 1..Len(reg[p]) |->
            IF reg[p][i].kind # "json" THEN reg[p][i]
            ELSE LET r == reg[p][i].rel
                     keep == SelectSeq(r.deps, LAMBDA d : Findable(reg, d))
                 IN  JsonLine([r EXCEPT !.deps = keep])]]

\* resolve as a function: [ok, acc], acc the accumulated sequence
RECURSIVE FnResolve(_, _, _, _, _), FnLoop(_, _, _, _, _, _), FnMain(_, _, _, _)
FnResolve(reg, opts, package_text, depth, acc) ==
    LET h == resolve_head(reg, opts, package_text) IN
    IF h.kind = "found"
    THEN IF should_expand(opts, depth)
         THEN FnLoop(reg, opts, h.result.deps, 1, decrement(depth), Append(acc, h.result))
         ELSE [ok |-> TRUE, acc |-> Append(acc, h.result)]
    ELSE [ok |-> h.kind = "none", acc |-> acc]

FnLoop(reg, opts, deps, i, depth, acc) ==
    IF i > Len(deps) THEN [ok |-> TRUE, acc |-> acc]
    ELSE IF cycle_guard(acc, effective_name(deps[i]), deps[i].req)
    THEN FnLoop(reg, opts, deps, i + 1, depth, acc)
    ELSE LET r == FnResolve(reg, opts, sub_query(deps[i]), depth, acc) IN
         IF r.ok THEN FnLoop(reg, opts, deps, i + 1, depth, r.acc) ELSE r

FnMain(reg, opts, i, acc) ==
    IF i > Len(opts.packages) THEN [ok |-> TRUE, acc |-> acc]
    ELSE LET r == FnResolve(reg, opts, opts.packages[i], resolve_depth(opts), acc) IN
         IF r.ok THEN FnMain(reg, opts, i + 1, r.acc) ELSE r

\* The releases with the dependency removed: same name and version
SameReleases(s, t) ==
    /\ Len(s) = Len(t)
    /\ \A i \in 1..Len(s) : s[i].name = t[i].name /\ s[i].vers = t[i].vers

RootsFound ==
    \A i \in 1..Len(options.packages) :
        resolve_head(registry, Strict(options), options.packages[i]).kind = "found"

\* A release whose dependencies were looked up has one that cannot be found
MissingLookedUp ==
    \E i \in 1..Len(resolved) :
        /\ trail[i].expanded
        /\ \E k \in 1..Len(resolved[i].deps) :
            LET sub == resolved[i].deps[k] IN
            /\ ~Findable(registry, sub)
            /\ ~cycle_guard(resolved, effective_name(sub), sub.req)

\* C3: when a dependency cannot be found, with --ignore-missing the run succeeds
\* and the accumulated sequence is the one the index without that dependency
\* gives (the siblings and the rest are resolved); without --ignore-missing the
\* run fails and main prints nothing.
C3_IgnoreMissing ==
    /\ options.ignore_missing => status # "error"
    /\ (status = "ok" /\ options.ignore_missing /\ RootsFound) =>
            LET fn == FnMain(Prune(registry), Strict(options), 1, <<>>) IN
            fn.ok /\ SameReleases(resolved, fn.acc)
    /\ (status = "ok" /\ ~options.ignore_missing) => ~MissingLookedUp
    /\ status = "error" => ~options.ignore_missing /\ output = <<>>

C3_Witness ==
    /\ status = "ok" /\ options.ignore_missing /\ options.recursive
    /\ Len(resolved) = 2
    /\ Len(resolved[1].deps) = 2
    /\ ~Findable(registry, resolved[1].deps[1])
    /\ resolved[2].name = effective_name(resolved[1].deps[2])

RECURSIVE IsAncestorOrSelf(_, _)
\* resolved[a] is resolved[i] or one of the releases it was reached through
IsAncestorOrSelf(a, i) ==
    IF i = a THEN TRUE
    ELSE IF i = 0 THEN FALSE
    ELSE IsAncestorOrSelf(a, trail[i].parent)

\* Every release follows the release it is a dependency of (or is a root), is the
\* resolution of that dependency, directly follows the subtree of an earlier
\* sibling or its parent, and siblings are in dependency-list order
PreOrder ==
    /\ Len(trail) = Len(resolved)
    /\ \A i \in 1..Len(trail) :
        LET p == trail[i].parent IN
        /\ p < i
        /\ p > 0 =>
            /\ trail[i].dep \in 1..Len(resolved[p].deps)
            /\ LET sub == resolved[p].deps[trail[i].dep] IN
                /\ resolved[i].name = effective_name(sub)
                /\ Matches(sub.req, resolved[i].vers)
            /\ IsAncestorOrSelf(p, i - 1)
        /\ \A j \in 1..(i - 1) : trail[j].parent = p => trail[j].dep < trail[i].dep

\* C9: the accumulated sequence only grows at its end, each release is appended
\* before its dependencies, and the dependencies of a release are visited one
\* after the other in list order, the subtree of one before the next.
C9_AppendOnlyPreOrder == [][IsPrefix(resolved, resolved') /\ PreOrder']_vars

C9_Witness ==
    /\ status = "ok"
    /\ Len(resolved) = 3
    /\ trail[2].parent = 1 /\ trail[3].parent = 1
    /\ Len(resolved[2].deps) = 1 /\ resolved[2].deps[1].name = resolved[3].name

SameRelease(r, t) == r.name = t.name /\ r.vers = t.vers

\* C10 as stated: the accumulated sequence never holds two releases of the same
\* name and version.
C10_NoDuplicates ==
    \A i, j \in 1..Len(resolved) : i # j => ~SameRelease(resolved[i], resolved[j])

\* C10 amended: a release resolved as a dependency is never one the accumulated
\* sequence already holds; only a root package is appended although its release
\* is already there, so a run with a single root has no duplicates.
C10_OnlyRootsDuplicate ==
    \A i, j \in 1..Len(resolved) :
        (i < j /\ SameRelease(resolved[i], resolved[j])) => trail[j].parent = 0

\* The root a is appended again after it was resolved as a dependency of root b
C10_Witness ==
    /\ status = "ok"
    /\ options.packages = <<Pb, Pa>>
    /\ Len(resolved) = 3
    /\ trail[2].parent = 1 /\ trail[3].parent = 0
    /\ SameRelease(resolved[2], resolved[3])

====
